---- MODULE Spec2Model ----
(***************************************************************************)
(* Tool-call orchestration of the chat backend: the VCP block parser       *)
(* (plugins/tool_call_parser.py), the tool executor and plugin manager     *)
(* (plugins/tool_executor.py, plugins/plugin.py) and the streaming loop    *)
(* ChatService.chat_stream (app/services/chat_service.py).                 *)
(*                                                                         *)
(* Text is a sequence of tokens.  Each token stands for a fixed piece of   *)
(* text; a chunk boundary or a search position can fall between tokens:    *)
(*   "<"  is  <<<[            "T"  is  TOOL_REQUEST]>>>     "E"  is END_   *)
(*   "n"  is  tool_name       "a"  is  archery              "k"  is msg    *)
(*   "x"  is  Echo            "y"  is  hi                   "t"  is true   *)
(*   ":"  ","  " "  are themselves, "["  is  the opening value delimiter   *)
(*   and  "]"  the closing value delimiter of key:[value];  "no_reply" is  *)
(*   itself and occurs as a value only;  "c"  is one character of a long   *)
(*   text.                                                                 *)
(***************************************************************************)
EXTENDS Integers, Sequences, FiniteSets, TLC

\* ------------------------------------------------------------------ text

\* Tokens matched by \w in PARAM_REGEX (END_ is made of word characters;
\* "<" and "T" end in characters outside \w).
WordTokens == {"n", "a", "k", "x", "y", "t", "E"}

SpaceTokens == {" "}

MARKER_START == <<"<", "T">>

MARKER_END == <<"<", "E", "T">>

\* s[i..] starts with m (positions are 1-based)
StartsAt(s, m, i) ==
    /\ i >= 1
    /\ i + Len(m) - 1 <= Len(s)
    /\ \A k \in 1..Len(m) : s[i + k - 1] = m[k]

RECURSIVE Find(_, _, _)
\* str.find(m, from): the first position >= from where m occurs, 0 for -1
Find(s, m, from) ==
    IF from + Len(m) - 1 > Len(s) THEN 0
    ELSE IF StartsAt(s, m, from) THEN from
    ELSE Find(s, m, from + 1)

\* m in s
Contains(s, m) == Find(s, m, 1) # 0

\* str.strip(): leading and trailing whitespace removed
strip(s) ==
    LET keep == {i \in 1..Len(s) : s[i] \notin SpaceTokens}
    IN IF keep = {} THEN <<>>
       ELSE SubSeq(s, CHOOSE i \in keep : \A j \in keep : i <= j,
                      CHOOSE i \in keep : \A j \in keep : i >= j)

RECURSIVE Join(_)
\* "".join(chunks)
Join(chunks) ==
    IF chunks = <<>> THEN <<>> ELSE Head(chunks) \o Join(Tail(chunks))

RECURSIVE SkipSpaces(_, _)
\* the first position >= i holding a token that is not whitespace (\s*),
\* Len(s) + 1 when only whitespace is left
SkipSpaces(s, i) ==
    IF i > Len(s) THEN Len(s) + 1
    ELSE IF s[i] \in SpaceTokens THEN SkipSpaces(s, i + 1)
    ELSE i

RECURSIVE WordEnd(_, _)
\* the first position >= i holding a token outside \w ([\w_]+ is greedy)
WordEnd(s, i) ==
    IF i > Len(s) THEN Len(s) + 1
    ELSE IF s[i] \in WordTokens THEN WordEnd(s, i + 1)
    ELSE i

\* ---------------------------------------------------------------- parser

\* One match of PARAM_REGEX  ([\w_]+)\s*:\s*[ ([\s\S]*?) ]\s*(?:,)?  that
\* starts at position i: <<[key, value, end]>> (end is the position after
\* the match), or <<>> when no match starts at i.
MatchAt(s, i) ==
    IF i > Len(s) \/ s[i] \notin WordTokens THEN <<>>
    ELSE
      LET keyEnd == WordEnd(s, i)
          colon == SkipSpaces(s, keyEnd)
      IN IF colon > Len(s) \/ s[colon] # ":" THEN <<>>
         ELSE
           LET open == SkipSpaces(s, colon + 1)
           IN IF open > Len(s) \/ s[open] # "[" THEN <<>>
              ELSE
                LET close == Find(s, <<"]">>, open + 1)
                IN IF close = 0 THEN <<>>
                   ELSE
                     LET after == SkipSpaces(s, close + 1)
                         stop == IF after <= Len(s) /\ s[after] = ","
                                 THEN after + 1 ELSE after
                     IN << [key |-> SubSeq(s, i, keyEnd - 1),
                            value |-> SubSeq(s, open + 1, close - 1),
                            end |-> stop] >>

RECURSIVE finditer(_, _)
\* PARAM_REGEX.finditer: the non-overlapping matches, leftmost first
finditer(s, from) ==
    IF from > Len(s) THEN <<>>
    ELSE LET m == MatchAt(s, from)
         IN IF m = <<>> THEN finditer(s, from + 1)
            ELSE m \o finditer(s, m[1].end)

\* args.setdefault(key, value): the first value of a repeated key is kept
SetArgOnce(args, key, value) ==
    [k \in DOMAIN args \cup {key} |->
        IF k \in DOMAIN args THEN args[k] ELSE value]

\* args[key] = value
SetArg(args, key, value) ==
    [k \in DOMAIN args \cup {key} |-> IF k = key THEN value ELSE args[k]]

\* The for loop body with an archery flag that, once set, stays set
ParseStepSticky(st, m) ==
    LET value == strip(m.value)
    IN IF m.key = <<"n">>
       THEN [st EXCEPT !.tool_name = value]
       ELSE IF m.key = <<"a">>
       THEN [st EXCEPT !.is_archery =
                (st.is_archery \/ value \in {<<"t">>, <<"no_reply">>})]
       ELSE [st EXCEPT !.args = SetArg(st.args, m.key, value)]

\* The state of the for loop of _parse_block after one more match.  tool_name
\* <<>> is both None and "": line 134 tests only its truth value.
ParseStep(st, m) ==
    LET value == strip(m.value)
    IN IF m.key = <<"n">>
       THEN [st EXCEPT !.tool_name = value]
       ELSE IF m.key = <<"a">>
       THEN [st EXCEPT !.is_archery = (value \in {<<"t">>, <<"no_reply">>})]
       ELSE [st EXCEPT !.args = SetArg(st.args, m.key, value)]

RECURSIVE ParseFold(_, _)
ParseFold(st, ms) ==
    IF ms = <<>> THEN st ELSE ParseFold(ParseStep(st, Head(ms)), Tail(ms))

\* _parse_block that returns a ToolCall whatever tool_name is
_parse_blockAlways(block_content) ==
    LET st == ParseFold([tool_name |-> <<>>, is_archery |-> FALSE,
                         args |-> << >>],
                        finditer(block_content, 1))
    IN << [name |-> st.tool_name, args |-> st.args,
           archery |-> st.is_archery] >>

\* ToolCallParser._parse_block: <<ToolCall>>, or <<>> for None
_parse_block(block_content) ==
    LET st == ParseFold([tool_name |-> <<>>, is_archery |-> FALSE,
                         args |-> << >>],
                        finditer(block_content, 1))
    IN IF st.tool_name # <<>>
       THEN << [name |-> st.tool_name, args |-> st.args,
                archery |-> st.is_archery] >>
       ELSE <<>>

\* The next value of search_offset after a block ending at end_index
NextOffset(end_index) == end_index + Len(MARKER_END)

\* The loop with content.rfind for the end delimiter: one block that runs
\* from the first start delimiter to the last end delimiter
ParseLoopToLastEnd(content, search_offset) ==
    LET start_index == Find(content, MARKER_START, search_offset)
        ends == {i \in 1..Len(content) : StartsAt(content, MARKER_END, i)}
        end_index == IF ends = {} THEN 0
                     ELSE CHOOSE i \in ends : \A j \in ends : i >= j
    IN IF start_index = 0 \/ end_index < start_index + Len(MARKER_START)
       THEN <<>>
       ELSE _parse_block(strip(SubSeq(content,
                                start_index + Len(MARKER_START),
                                end_index - 1)))

RECURSIVE ParseLoopOpenEnded(_, _)
\* The loop that takes a start delimiter without an end delimiter as a
\* block that runs to the end of the text
ParseLoopOpenEnded(content, search_offset) ==
    IF search_offset > Len(content) THEN <<>>
    ELSE
      LET start_index == Find(content, MARKER_START, search_offset)
      IN IF start_index = 0 THEN <<>>
         ELSE
           LET end_index == Find(content, MARKER_END,
                                 start_index + Len(MARKER_START))
           IN IF end_index = 0
              THEN _parse_block(strip(SubSeq(content,
                                   start_index + Len(MARKER_START),
                                   Len(content))))
              ELSE _parse_block(strip(SubSeq(content,
                                   start_index + Len(MARKER_START),
                                   end_index - 1)))
                   \o ParseLoopOpenEnded(content, NextOffset(end_index))

RECURSIVE ParseLoop(_, _)
\* The while loop of ToolCallParser.parse from search_offset on
ParseLoop(content, search_offset) ==
    IF search_offset > Len(content) THEN <<>>
    ELSE
      LET start_index == Find(content, MARKER_START, search_offset)
      IN IF start_index = 0 THEN <<>>
         ELSE
           LET end_index == Find(content, MARKER_END,
                                 start_index + Len(MARKER_START))
           IN IF end_index = 0
              THEN ParseLoop(content, start_index + Len(MARKER_START))
              ELSE _parse_block(strip(SubSeq(content,
                                   start_index + Len(MARKER_START),
                                   end_index - 1)))
                   \o ParseLoop(content, NextOffset(end_index))

\* ToolCallParser.parse
parse(content) ==
    IF content = <<>> THEN <<>>
    ELSE IF ~Contains(content, MARKER_START) THEN <<>>
    ELSE IF ~Contains(content, MARKER_END) THEN <<>>
    ELSE ParseLoop(content, 1)

\* separate that puts every call in 'normal'
separateAllNormal(calls) ==
    [normal |-> calls,
     archery |-> SelectSeq(calls, LAMBDA tc : tc.archery)]

\* ToolCallParser.separate
separate(calls) ==
    [normal |-> SelectSeq(calls, LAMBDA tc : ~tc.archery),
     archery |-> SelectSeq(calls, LAMBDA tc : tc.archery)]

\* ----------------------------------------------------------- tool backend

\* Python values a handler or a plugin process can hand back.  val is the
\* text of a str; content is <<v>> for a dict with a 'content' key.
PyStr(s) == [type |-> "str", val |-> s, content |-> <<>>]

PyNone == [type |-> "NoneType", val |-> <<>>, content |-> <<>>]

PyInt == [type |-> "int", val |-> <<"7">>, content |-> <<>>]

PyDict == [type |-> "dict", val |-> <<"{...}">>, content |-> <<>>]

PyRich(c) == [type |-> "dict", val |-> <<"{content}">>, content |-> <<c>>]

\* The 'result' values of a payload; Absent is a missing key
Absent == [type |-> "absent", val |-> <<>>, content |-> <<>>]

ResultValues ==
    {PyStr(<<"y">>), PyNone, Absent, PyInt, PyDict, PyRich(PyStr(<<"y">>)),
     PyRich(PyNone)}

\* What process_tool_call of a module, or the JSON on a process's standard
\* output, can be: a dict (with or without status, error and result keys)
\* or a value that is no dict.
Payloads ==
    {[isdict |-> FALSE, status |-> "absent", error |-> Absent,
      result |-> Absent]}
    \cup {[isdict |-> TRUE, status |-> "absent", error |-> Absent,
           result |-> Absent]}
    \cup {[isdict |-> TRUE, status |-> "error", error |-> e,
           result |-> Absent] : e \in {Absent, PyStr(<<"boom">>)}}
    \cup {[isdict |-> TRUE, status |-> "success", error |-> Absent,
           result |-> r] : r \in ResultValues}

\* What the backend of a registered plugin does when it is asked to run
DirectBehaviours ==
    {[kind |-> k, payload |-> CHOOSE p \in Payloads : ~p.isdict]
        : k \in {"no_module", "raises"}}
    \cup {[kind |-> "returns", payload |-> p] : p \in Payloads}

StdioBehaviours ==
    {[kind |-> k, payload |-> CHOOSE p \in Payloads : ~p.isdict]
        : k \in {"no_command", "not_found", "spawn_error", "timeout",
                 "timeout_exited", "exit_nonzero", "exit_nonzero_silent",
                 "bad_json", "bad_utf8", "input_error"}}
    \cup {[kind |-> "exit_zero", payload |-> p] : p \in Payloads}

\* A plugin manifest as far as process_tool_call reads it, with the
\* behaviour of the module or executable behind it
Manifests ==
    {[protocol |-> "direct", behaviour |-> b] : b \in DirectBehaviours}
    \cup {[protocol |-> "stdio", behaviour |-> b] : b \in StdioBehaviours}
    \cup {[protocol |-> "websocket",
           behaviour |-> CHOOSE b \in DirectBehaviours : b.kind = "no_module"]}

\* communication.timeout is not in the manifest
NoTimeout == -1

\* plugin.get("communication", {}).get("timeout", 60000) / 1000 (line 155)
TimeoutSeconds(timeout) ==
    (IF timeout = NoTimeout THEN 60000 ELSE timeout) \div 1000

\* A returned value, or an exception that leaves the function
Return(v) == [raised |-> FALSE, value |-> v, message |-> <<>>]

Raise(msg) ==
    [raised |-> TRUE, value |-> CHOOSE p \in Payloads : ~p.isdict,
     message |-> msg]

\* {"status": "error", "error": message}
ErrorPayload(message) ==
    [isdict |-> TRUE, status |-> "error", error |-> PyStr(message),
     result |-> Absent]

\* PluginManager._execute_stdio_plugin
_execute_stdio_plugin(plugin_name, plugin) ==
    LET b == plugin.behaviour
    IN IF b.kind = "no_command"
       THEN Return(ErrorPayload(<<"Plugin '">> \o plugin_name
                                \o <<"' has no command configured">>))
       ELSE IF b.kind = "not_found"
       THEN Return(ErrorPayload(<<"Command not found: ", "cmd">>))
       ELSE IF b.kind = "spawn_error"
       THEN Return(ErrorPayload(<<"Failed to execute plugin: ", "oserror">>))
       ELSE IF b.kind = "timeout"
       THEN Return(ErrorPayload(<<"Plugin '">> \o plugin_name
                                \o <<"' execution timeout">>))
       ELSE IF b.kind = "timeout_exited"
       THEN Return(ErrorPayload(<<"Failed to execute plugin: ">>))
       ELSE IF b.kind = "exit_nonzero"
       THEN Return(ErrorPayload(<<"Plugin '">> \o plugin_name
                                \o <<"' failed: ", "stderr text">>))
       ELSE IF b.kind = "exit_nonzero_silent"
       THEN Return(ErrorPayload(<<"Plugin '">> \o plugin_name
                                \o <<"' failed: ", "Unknown error">>))
       ELSE IF b.kind = "bad_json"
       THEN Return(ErrorPayload(<<"Invalid JSON output from plugin: ",
                                  "Expecting value">>))
       ELSE IF b.kind = "bad_utf8"
       THEN Return(ErrorPayload(<<"Failed to execute plugin: ",
                                  "codec can't decode">>))
       ELSE IF b.kind = "input_error"
       THEN Return(ErrorPayload(<<"Failed to execute plugin: ",
                                  "is not JSON serializable">>))
       ELSE Return(b.payload)

\* The manifest declares no communication.protocol
NoProtocol == "absent"

\* plugin.get("communication", {}).get("protocol", "direct") (line 123)
Protocol(plugin) ==
    IF plugin.protocol = NoProtocol THEN "direct" ELSE plugin.protocol

\* process_tool_call that reads the protocol without a default
process_tool_callDeclared(tool_name, plugin) ==
    IF plugin.protocol = "stdio"
    THEN _execute_stdio_plugin(tool_name, plugin)
    ELSE IF plugin.protocol = "direct"
    THEN IF plugin.behaviour.kind = "no_module"
         THEN Return(ErrorPayload(<<"Plugin '">> \o tool_name
                                  \o <<"' does not support tool calls">>))
         ELSE IF plugin.behaviour.kind = "raises"
         THEN Raise(<<"boom">>)
         ELSE Return(plugin.behaviour.payload)
    ELSE Return(ErrorPayload(<<"Unknown protocol: ", plugin.protocol>>))

\* process_tool_call that catches what the handler raises and reports a
\* failure of its own
process_tool_callSwallow(tool_name, plugin) ==
    IF Protocol(plugin) = "stdio"
    THEN _execute_stdio_plugin(tool_name, plugin)
    ELSE IF Protocol(plugin) = "direct"
    THEN IF plugin.behaviour.kind = "no_module"
         THEN Return(ErrorPayload(<<"Plugin '">> \o tool_name
                                  \o <<"' does not support tool calls">>))
         ELSE IF plugin.behaviour.kind = "raises"
         THEN Return(ErrorPayload(<<"handler failed">>))
         ELSE Return(plugin.behaviour.payload)
    ELSE Return(ErrorPayload(<<"Unknown protocol: ", plugin.protocol>>))

\* PluginManager.process_tool_call for a registered plugin
process_tool_call(tool_name, plugin) ==
    IF Protocol(plugin) = "stdio"
    THEN _execute_stdio_plugin(tool_name, plugin)
    ELSE IF Protocol(plugin) = "direct"
    THEN IF plugin.behaviour.kind = "no_module"
         THEN Return(ErrorPayload(<<"Plugin '">> \o tool_name
                                  \o <<"' does not support tool calls">>))
         ELSE IF plugin.behaviour.kind = "raises"
         THEN Raise(<<"boom">>)
         ELSE Return(plugin.behaviour.payload)
    ELSE Return(ErrorPayload(<<"Unknown protocol: ", plugin.protocol>>))

\* _create_error_result with a content that leaves the message out
_create_error_resultGeneric(tool_name, message) ==
    [success |-> FALSE, error |-> message,
     content |-> PyStr(<<"[error] ", "tool failed">>),
     tool_name |-> tool_name, has_raw |-> FALSE]

\* ToolExecutor._create_error_result
_create_error_result(tool_name, message) ==
    [success |-> FALSE, error |-> message,
     content |-> PyStr(<<"[error] ">> \o message), tool_name |-> tool_name,
     has_raw |-> FALSE]

\* str(v) inside an f-string
Str(v) == IF v.type = "NoneType" THEN <<"None">> ELSE v.val

\* _process_result with content = result.get('result') in every case
_process_resultFlat(tool_name, result) ==
    IF ~result.isdict
    THEN Raise(<<"object has no attribute 'get'">>)
    ELSE IF result.status # "success"
    THEN Return(_create_error_result(tool_name,
                    IF result.error.type = "absent"
                    THEN <<"unknown error">> ELSE Str(result.error)))
    ELSE
      LET raw_result == IF result.result.type = "absent"
                        THEN PyNone ELSE result.result
      IN Return([success |-> TRUE, error |-> <<>>, content |-> raw_result,
                 tool_name |-> tool_name, has_raw |-> TRUE,
                 raw |-> result])

\* ToolExecutor._process_result; AttributeError when result has no .get
_process_result(tool_name, result) ==
    IF ~result.isdict
    THEN Raise(<<"object has no attribute 'get'">>)
    ELSE IF result.status # "success"
    THEN Return(_create_error_result(tool_name,
                    IF result.error.type = "absent"
                    THEN <<"unknown error">> ELSE Str(result.error)))
    ELSE
      LET raw_result == IF result.result.type = "absent"
                        THEN PyNone ELSE result.result
          content == IF raw_result.type = "dict" /\ raw_result.content # <<>>
                     THEN raw_result.content[1] ELSE raw_result
      IN Return([success |-> TRUE, error |-> <<>>, content |-> content,
                 tool_name |-> tool_name, has_raw |-> TRUE,
                 raw |-> result])

\* The try block of ToolExecutor.execute (lines 60-64)
ExecuteTry(tool_name, plugin) ==
    LET result == process_tool_call(tool_name, plugin)
    IN IF result.raised THEN result
       ELSE _process_result(tool_name, result.value)

\* execute with _process_result called after the try block, not inside it
executeUnguarded(tool_call, registry) ==
    LET tool_name == tool_call.name
    IN IF tool_name \notin DOMAIN registry
       THEN Return(_create_error_result(tool_name,
                <<"no plugin named \"">> \o tool_name \o <<"\"">>))
       ELSE
         LET r == process_tool_call(tool_name, registry[tool_name])
         IN IF r.raised
            THEN Return(_create_error_result(tool_name,
                            <<"execution error: ">> \o r.message))
            ELSE _process_result(tool_name, r.value)

\* execute with an error for an unknown tool that leaves the name out
executeAnonymous(tool_call, registry) ==
    LET tool_name == tool_call.name
    IN IF tool_name \notin DOMAIN registry
       THEN Return(_create_error_result(tool_name, <<"no such plugin">>))
       ELSE
         LET r == ExecuteTry(tool_name, registry[tool_name])
         IN IF r.raised
            THEN Return(_create_error_result(tool_name,
                            <<"execution error: ">> \o r.message))
            ELSE r

\* ToolExecutor.execute: registry is plugin_manager.plugins (name -> manifest)
execute(tool_call, registry) ==
    LET tool_name == tool_call.name
    IN IF tool_name \notin DOMAIN registry
       THEN Return(_create_error_result(tool_name,
                <<"no plugin named \"">> \o tool_name \o <<"\"">>))
       ELSE
         LET r == ExecuteTry(tool_name, registry[tool_name])
         IN IF r.raised
            THEN Return(_create_error_result(tool_name,
                            <<"execution error: ">> \o r.message))
            ELSE r

\* ------------------------------------------------------------ chat_stream

VARIABLES
    plugin_manager,        \* TRUE when the ChatService was given one
    plugins,               \* plugin_manager.plugins: tool name -> manifest
    messages,              \* the message list of the turn
    iteration,
    pc,                    \* "loop", "streaming", "executing", "done",
                           \* "raised" (an exception left chat_stream)
    stream,                \* chunks the model has still to emit this round
    response_chunks,
    tool_calls,
    current_tool_content,
    in_tool_call,
    execution_results,
    yielded,               \* chunks chat_stream has yielded to its caller
    emitted,               \* per round, the chunks the model has emitted
    p_content,             \* ToolCallParser.parse called on its own: input,
    p_declared,            \* the blocks the input was written from,
    p_result,              \* the returned list
    p_pc,                  \* "off", "call", "returned"
    e_pc,                  \* ToolExecutor.execute called on its own: "off",
                           \* "call", "handler", "communicate", "timed_out",
                           \* "waiting", "returned"
    e_tool_call,           \* the tool call execute was given
    communication_timeout, \* communication.timeout of the manifest (ms)
    e_clock,               \* seconds since communicate was awaited
    process,               \* the plugin process: "none", "running", "exited"
    kill_sent,             \* process.kill() has signalled the process
    timeout_fired,         \* wait_for has raised TimeoutError
    handler_calls,         \* calls of the module's process_tool_call
    spawned,               \* processes created
    e_result,              \* what execute returned, or the exception
    s_pc,                  \* ToolCallParser.separate called on its own:
                           \* "off", "call", "returned"
    s_tool_calls,          \* the list separate was given
    s_result,              \* the dict it returned
    frames                 \* two chat_stream calls on one ChatService: for
                           \* each call the local variables of its frame

chatVars ==
    <<plugin_manager, plugins, messages, iteration, pc, stream,
      response_chunks, tool_calls, current_tool_content, in_tool_call,
      execution_results, yielded, emitted>>

parserVars == <<p_content, p_declared, p_result, p_pc>>

execVars ==
    <<e_pc, e_tool_call, communication_timeout, e_clock, process, kill_sent,
      timeout_fired, handler_calls, spawned, e_result>>

separateVars == <<s_pc, s_tool_calls, s_result>>

vars == <<chatVars, parserVars, execVars, separateVars, frames>>

\* self.max_tool_iterations of a service built with a plugin manager
max_tool_iterations == 5

\* max_iterations of chat_stream (line 155)
max_iterations == IF plugin_manager THEN max_tool_iterations ELSE 1

\* The while condition with <= for <
LoopGuardInclusive(i, max) == i <= max

\* The while condition of the tool calling loop (line 157)
LoopGuard(i, max) == i < max

\* The for loop body with a parser that is there without a plugin manager
DetectAlwaysParses(in, cur, calls, chunk, has_parser) ==
    LET started == Contains(chunk, MARKER_START)
        in1 == in \/ started
        cur1 == IF started THEN chunk ELSE cur
        cur2 == IF in1 THEN cur1 \o chunk ELSE cur1
    IN IF in1 /\ Contains(cur2, MARKER_END)
       THEN [in_tool_call |-> FALSE, current_tool_content |-> <<>>,
             tool_calls |-> calls \o parse(cur2)]
       ELSE [in_tool_call |-> in1, current_tool_content |-> cur2,
             tool_calls |-> calls]

\* What one pass of the for loop body (lines 167-186) makes of
\* in_tool_call, current_tool_content and tool_calls for one chunk
Detect(in, cur, calls, chunk, has_parser) ==
    LET started == Contains(chunk, MARKER_START)
        in1 == in \/ started
        cur1 == IF started THEN chunk ELSE cur
        cur2 == IF in1 THEN cur1 \o chunk ELSE cur1
    IN IF in1 /\ Contains(cur2, MARKER_END)
       THEN [in_tool_call |-> FALSE, current_tool_content |-> <<>>,
             tool_calls |-> IF has_parser THEN calls \o parse(cur2)
                            ELSE calls]
       ELSE [in_tool_call |-> in1, current_tool_content |-> cur2,
             tool_calls |-> calls]

\* yield only the chunks that hold no start delimiter
YieldUnmarked(out, chunk) ==
    IF Contains(chunk, MARKER_START) THEN out ELSE Append(out, chunk)

\* yield chunk (line 189)
Yield(out, chunk) == Append(out, chunk)

\* The conditions under which the full response is parsed after the stream
\* (lines 194 and 198)
ReparseRuns(full_response, calls, has_parser) ==
    Contains(full_response, MARKER_START) /\ calls = <<>> /\ has_parser

\* The re-parse of the full response after the stream (lines 193-200)
Reparse(full_response, calls, has_parser) ==
    IF ReparseRuns(full_response, calls, has_parser)
    THEN parse(full_response)
    ELSE calls

\* len(content) > 1000 cuts content to 1000 characters (lines 457-458)
TruncateAt == 1000

Truncate(text) ==
    IF Len(text) > TruncateAt
    THEN SubSeq(text, 1, TruncateAt) \o <<"...">>
    ELSE text

\* The lines format_tool_results adds for one result; len() raises TypeError
\* for a content that has no length
FormatOne(result) ==
    IF result.success
    THEN IF result.content.type \in {"NoneType", "int"}
         THEN Raise(<<"object of type '", result.content.type,
                      "' has no len()">>)
         ELSE Return(<<"- tool: ">> \o result.tool_name
                     \o <<"\n- status: success\n- content: ">>
                     \o Truncate(result.content.val) \o <<"\n">>)
    ELSE Return(<<"- tool: ">> \o result.tool_name
                \o <<"\n- status: failed\n- error: ">> \o result.error
                \o <<"\n">>)

RECURSIVE FormatAll(_)
FormatAll(results) ==
    IF results = <<>> THEN Return(<<>>)
    ELSE LET one == FormatOne(Head(results))
             rest == FormatAll(Tail(results))
         IN IF one.raised THEN one
            ELSE IF rest.raised THEN rest
            ELSE Return(one.value \o rest.value)

\* ChatService.format_tool_results
format_tool_results(results) ==
    LET body == FormatAll(results)
    IN IF body.raised THEN body
       ELSE Return(<<"[[VCP results\n">> \o body.value
                   \o <<"VCP results end]]">>)

RECURSIVE JoinUnmarked(_)
\* The chunks joined without those that hold a start delimiter
JoinUnmarked(chunks) ==
    IF chunks = <<>> THEN <<>>
    ELSE (IF Contains(Head(chunks), MARKER_START) THEN <<>> ELSE Head(chunks))
         \o JoinUnmarked(Tail(chunks))

\* The assistant turn without the chunks that hold a start delimiter
AssistantTurnUnmarked(chunks) ==
    [role |-> "assistant", content |-> JoinUnmarked(chunks)]

\* The assistant turn appended after a round with tool calls (lines 239-241)
AssistantTurn(chunks) == [role |-> "assistant", content |-> Join(chunks)]

\* The tool result turn (lines 243-248)
ToolResultTurn(tool_summary) ==
    [role |-> "user",
     content |-> <<"<!-- VCP_TOOL_PAYLOAD -->\n">> \o tool_summary]

\* _build_messages: the system prompt and the current user message
InitialMessages ==
    << [role |-> "system", content |-> <<"system prompt">>],
       [role |-> "user", content |-> <<"user message">>] >>

\* ---------------------------------------------------------- model outputs

\* key:[value]
Pair(key, value) == key \o <<":", "[">> \o value \o <<"]">>

\* A block calling the tool called name with no argument
Block(name) == MARKER_START \o Pair(<<"n">>, name) \o MARKER_END

\* What the scripted model client of Spec emits in one round, chunk by chunk:
\* a block with text around it, a block in one chunk that calls another
\* tool, a block whose start delimiter is cut by a chunk boundary, a block
\* with no tool_name, two answers without a block, and two blocks calling
\* different tools, the second one marked archery.
RoundOutputs ==
    { << <<"y", " ">>, MARKER_START \o Pair(<<"n">>, <<"x">>),
         MARKER_END \o <<" ", "y">> >>,
      << Block(<<"y">>) >>,
      << <<"y", "<">>, <<"T">> \o Pair(<<"n">>, <<"x">>) \o MARKER_END >>,
      << MARKER_START \o Pair(<<"k">>, <<"y">>) \o MARKER_END >>,
      << <<"y">>, <<" ", "y">> >>,
      << <<"y", " ", "y">> >>,
      << Block(<<"y">>),
         MARKER_START \o Pair(<<"n">>, <<"x">>) \o <<",">>
             \o Pair(<<"a">>, <<"t">>) \o MARKER_END >> }

\* The registries of Spec: tool x registered with one manifest, or no tool
Registries ==
    { << >> } \cup { [name \in {<<"x">>} |-> m] : m \in Manifests }

\* ------------------------------------------------------------- chat_stream

ParserOff ==
    /\ p_content = <<>>
    /\ p_declared = <<>>
    /\ p_result = <<>>
    /\ p_pc = "off"

SeparateOff ==
    /\ s_pc = "off"
    /\ s_tool_calls = <<>>
    /\ s_result = <<>>

TwoOff == frames = <<>>

ExecOff ==
    /\ e_pc = "off"
    /\ e_tool_call = <<>>
    /\ communication_timeout = NoTimeout
    /\ e_clock = 0
    /\ process = "none"
    /\ kill_sent = FALSE
    /\ timeout_fired = FALSE
    /\ handler_calls = 0
    /\ spawned = 0
    /\ e_result = <<>>

\* A ChatService and the start of chat_stream, up to the tool calling loop
ChatStart ==
    /\ messages = InitialMessages
    /\ iteration = 0
    /\ pc = "loop"
    /\ stream = <<>>
    /\ response_chunks = <<>>
    /\ tool_calls = <<>>
    /\ current_tool_content = <<>>
    /\ in_tool_call = FALSE
    /\ execution_results = <<>>
    /\ yielded = <<>>
    /\ emitted = <<>>

Init ==
    /\ plugin_manager \in BOOLEAN
    /\ plugins \in Registries
    /\ ChatStart
    /\ ParserOff
    /\ ExecOff
    /\ SeparateOff
    /\ TwoOff

\* One more iteration of the while loop starts: the round state is reset and
\* generate_response_stream(messages) is called; output is what the model
\* will emit (lines 157-166)
GenerateOutput(output) ==
    /\ pc = "loop"
    /\ LoopGuard(iteration, max_iterations)
    /\ iteration' = iteration + 1
    /\ response_chunks' = <<>>
    /\ tool_calls' = <<>>
    /\ current_tool_content' = <<>>
    /\ in_tool_call' = FALSE
    /\ stream' = output
    /\ emitted' = Append(emitted, <<>>)
    /\ pc' = "streaming"
    /\ UNCHANGED <<plugin_manager, plugins, messages, execution_results,
                   yielded, parserVars, execVars,
                   separateVars, frames>>

Generate == \E output \in RoundOutputs : GenerateOutput(output)

\* The while condition fails: chat_stream ends (line 157)
Exhausted ==
    /\ pc = "loop"
    /\ ~LoopGuard(iteration, max_iterations)
    /\ pc' = "done"
    /\ UNCHANGED <<plugin_manager, plugins, messages, iteration, stream,
                   response_chunks, tool_calls, current_tool_content,
                   in_tool_call, execution_results, yielded, emitted,
                   parserVars, execVars,
                   separateVars, frames>>

\* The model emits its next chunk and the for loop body runs on it
\* (lines 166-189)
Chunk ==
    /\ pc = "streaming"
    /\ stream # <<>>
    /\ LET chunk == Head(stream)
           d == Detect(in_tool_call, current_tool_content, tool_calls,
                       chunk, plugin_manager)
       IN /\ stream' = Tail(stream)
          /\ emitted' = [emitted EXCEPT ![Len(emitted)] = Append(@, chunk)]
          /\ response_chunks' = Append(response_chunks, chunk)
          /\ in_tool_call' = d.in_tool_call
          /\ current_tool_content' = d.current_tool_content
          /\ tool_calls' = d.tool_calls
          /\ yielded' = Yield(yielded, chunk)
    /\ UNCHANGED <<plugin_manager, plugins, messages, iteration, pc,
                   execution_results, parserVars, execVars,
                   separateVars, frames>>

\* The end of the stream with a loop that goes on when no call is pending
EndStreamGoesOn ==
    /\ pc = "streaming"
    /\ stream = <<>>
    /\ LET calls == Reparse(Join(response_chunks), tool_calls, plugin_manager)
       IN /\ tool_calls' = calls
          /\ pc' = IF calls = <<>> THEN "loop"
                   ELSE IF plugin_manager THEN "executing" ELSE "done"
    /\ execution_results' = <<>>
    /\ UNCHANGED <<plugin_manager, plugins, messages, iteration, stream,
                   response_chunks, current_tool_content, in_tool_call,
                   yielded, emitted, parserVars, execVars,
                   separateVars, frames>>

\* The stream of the round is over (lines 191-217, 252-253)
EndStream ==
    /\ pc = "streaming"
    /\ stream = <<>>
    /\ LET calls == Reparse(Join(response_chunks), tool_calls, plugin_manager)
       IN /\ tool_calls' = calls
          /\ pc' = IF calls = <<>> THEN "done"
                   ELSE IF plugin_manager THEN "executing" ELSE "done"
    /\ execution_results' = <<>>
    /\ UNCHANGED <<plugin_manager, plugins, messages, iteration, stream,
                   response_chunks, current_tool_content, in_tool_call,
                   yielded, emitted, parserVars, execVars,
                   separateVars, frames>>

\* execute_all taking the tool calls from the last one to the first
ExecuteToolReversed ==
    /\ pc = "executing"
    /\ Len(execution_results) < Len(tool_calls)
    /\ LET r == execute(tool_calls[Len(tool_calls) - Len(execution_results)],
                        plugins)
       IN IF r.raised
          THEN /\ pc' = "raised"
               /\ UNCHANGED execution_results
          ELSE /\ execution_results' = Append(execution_results, r.value)
               /\ UNCHANGED pc
    /\ UNCHANGED <<plugin_manager, plugins, messages, iteration, stream,
                   response_chunks, tool_calls, current_tool_content,
                   in_tool_call, yielded, emitted, parserVars, execVars,
                   separateVars, frames>>

\* execute_all awaits execute for the next tool call (tool_executor.py 83-86)
ExecuteTool ==
    /\ pc = "executing"
    /\ Len(execution_results) < Len(tool_calls)
    /\ LET r == execute(tool_calls[Len(execution_results) + 1], plugins)
       IN IF r.raised
          THEN /\ pc' = "raised"
               /\ UNCHANGED execution_results
          ELSE /\ execution_results' = Append(execution_results, r.value)
               /\ UNCHANGED pc
    /\ UNCHANGED <<plugin_manager, plugins, messages, iteration, stream,
                   response_chunks, tool_calls, current_tool_content,
                   in_tool_call, yielded, emitted, parserVars, execVars,
                   separateVars, frames>>

\* Every call has its result: the summary is built and the two turns are
\* appended (lines 220-251)
AppendResults ==
    /\ pc = "executing"
    /\ Len(execution_results) = Len(tool_calls)
    /\ LET tool_summary == format_tool_results(execution_results)
       IN IF tool_summary.raised
          THEN /\ pc' = "raised"
               /\ UNCHANGED messages
          ELSE /\ messages' = messages \o
                      << AssistantTurn(response_chunks),
                         ToolResultTurn(tool_summary.value) >>
               /\ pc' = "loop"
    /\ UNCHANGED <<plugin_manager, plugins, iteration, stream,
                   response_chunks, tool_calls, current_tool_content,
                   in_tool_call, execution_results, yielded, emitted,
                   parserVars, execVars,
                   separateVars, frames>>

Next ==
    \/ Generate
    \/ Chunk
    \/ EndStream
    \/ ExecuteTool
    \/ AppendResults
    \/ Exhausted

Spec == Init /\ [][Next]_vars

\* ------------------------------------------- one round, over every split

\* The most chunks a round's output is cut into in SpecRound
MaxChunks == 3

RECURSIVE CutSeqs(_, _, _)
\* The increasing sequences of at most k chunk ends taken from lo..hi
CutSeqs(lo, hi, k) ==
    {<<>>} \cup
    (IF k = 0 THEN {}
     ELSE UNION { { <<a>> \o c : c \in CutSeqs(a + 1, hi, k - 1) }
                  : a \in lo..hi })

RECURSIVE SplitAt(_, _)
\* text cut into chunks that end at the positions cuts
SplitAt(text, cuts) ==
    IF cuts = <<>> THEN <<text>>
    ELSE <<SubSeq(text, 1, cuts[1])>> \o
         SplitAt(SubSeq(text, cuts[1] + 1, Len(text)),
                 [i \in 1..(Len(cuts) - 1) |-> cuts[i + 1] - cuts[1]])

\* The round outputs of SpecRound, each emitted in every split: a block
\* inside text, two blocks, a block with an argument, a block after a
\* block that never ends, a block followed by one that never ends, the
\* start of a block, plain text, two blocks followed by one that never
\* ends, and the end of a block followed by a start delimiter.
RoundTexts ==
    { <<"y">> \o Block(<<"x">>) \o <<"y">>,
      Block(<<"x">>) \o Block(<<"y">>),
      MARKER_START \o Pair(<<"n">>, <<"x">>) \o <<",">>
          \o Pair(<<"k">>, <<"y">>) \o MARKER_END,
      Block(<<"x">>) \o MARKER_START \o Pair(<<"n">>, <<"y">>),
      MARKER_START \o Pair(<<"n">>, <<"x">>),
      <<"y", " ", "y">>,
      Block(<<"x">>) \o Block(<<"y">>) \o MARKER_START
          \o Pair(<<"n">>, <<"x">>),
      Pair(<<"n">>, <<"x">>) \o MARKER_END \o <<" ">> \o MARKER_START }

\* A service with a plugin manager whose registry is empty
InitRound ==
    /\ plugin_manager = TRUE
    /\ plugins = << >>
    /\ ChatStart
    /\ ParserOff
    /\ ExecOff
    /\ SeparateOff
    /\ TwoOff

\* The first round's generation; the model cuts its output anywhere
GenerateSplit ==
    /\ iteration = 0
    /\ \E text \in RoundTexts :
         \E cuts \in CutSeqs(1, Len(text) - 1, MaxChunks - 1) :
            GenerateOutput(SplitAt(text, cuts))

NextRound ==
    \/ GenerateSplit
    \/ Chunk
    \/ EndStream

SpecRound == InitRound /\ [][NextRound]_vars

\* --------------------------------------------- ToolCallParser.parse alone

\* The most key/value pairs in the blocks of one parser input
MaxPairs == 3

\* The pairs blocks are written from: tool_name, archery and msg with the
\* values they take; " y " is a value with whitespace at both ends, " " a
\* value that is only whitespace
PairTypes ==
    { [key |-> <<"n">>, value |-> <<"x">>],
      [key |-> <<"n">>, value |-> <<" ", "y", " ">>],
      [key |-> <<"n">>, value |-> <<" ">>],
      [key |-> <<"a">>, value |-> <<"t">>],
      [key |-> <<"a">>, value |-> <<"x">>],
      [key |-> <<"a">>, value |-> <<"no_reply">>],
      [key |-> <<"k">>, value |-> <<"x">>],
      [key |-> <<"k">>, value |-> <<" ", "y", " ">>] }

\* The non-empty sequences of at most n pairs: the pairs of one block
PairSeqs(n) == UNION { [1..m -> PairTypes] : m \in 1..n }

RECURSIVE BlockSeqs(_)
\* The sequences of blocks that hold at most n pairs together
BlockSeqs(n) ==
    {<<>>} \cup
    UNION { { <<b>> \o rest : rest \in BlockSeqs(n - Len(b)) }
            : b \in PairSeqs(n) }

RECURSIVE FormatPairs(_)
\* The body of a block: its pairs, separated by commas
FormatPairs(ps) ==
    IF Len(ps) = 1 THEN Pair(ps[1].key, ps[1].value)
    ELSE Pair(ps[1].key, ps[1].value) \o <<",">> \o FormatPairs(Tail(ps))

RECURSIVE FormatBlocks(_)
\* The blocks one after another, each between its delimiters
FormatBlocks(bs) ==
    IF bs = <<>> THEN <<>>
    ELSE MARKER_START \o FormatPairs(Head(bs)) \o MARKER_END
         \o FormatBlocks(Tail(bs))

\* The text a parser input stands for
FormatInput(d) == d.pre \o FormatBlocks(d.blocks) \o d.post

\* What comes before the blocks of a parser input: nothing, text, or a
\* start delimiter and a pair with no end delimiter
InputHeads ==
    { <<>>, <<"x", " ">>, MARKER_START \o Pair(<<"k">>, <<"x">>) \o <<",">> }

\* What comes after them: nothing, or text and the start of a block that
\* does not end
InputTails ==
    { <<>>, <<" ", "y">> \o MARKER_START \o Pair(<<"n">>, <<"x">>) }

\* The texts around the blocks of a parser input: nothing, text before,
\* text before and an unfinished block after, or an unfinished block before
InputFrames ==
    { f \in [pre : InputHeads, post : InputTails] :
         \/ f.pre = <<>> /\ f.post = <<>>
         \/ f.pre # <<>> /\ ~Contains(f.pre, MARKER_START)
         \/ Contains(f.pre, MARKER_START) /\ f.post = <<>> }

\* parse is about to be called on a text written from complete blocks
InitParser ==
    /\ plugin_manager = FALSE
    /\ plugins = << >>
    /\ ChatStart
    /\ \E f \in InputFrames, bs \in BlockSeqs(MaxPairs) :
          p_declared = [pre |-> f.pre, blocks |-> bs, post |-> f.post]
    /\ p_content = FormatInput(p_declared)
    /\ p_result = <<>>
    /\ p_pc = "call"
    /\ ExecOff
    /\ SeparateOff
    /\ TwoOff

\* ToolCallParser.parse(content) is called and returns
ParseCall ==
    /\ p_pc = "call"
    /\ p_result' = parse(p_content)
    /\ p_pc' = "returned"
    /\ UNCHANGED <<chatVars, p_content, p_declared, execVars,
                   separateVars, frames>>

NextParser == ParseCall

SpecParser == InitParser /\ [][NextParser]_vars

\* ------------------------------- two chat_stream calls on one ChatService

\* The two calls of chat_stream
Runs == {1, 2}

\* _build_messages for a request without history: the system prompt and
\* the request's message (lines 293-303)
_build_messages(request) ==
    << [role |-> "system", content |-> <<"system prompt">>],
       [role |-> "user", content |-> request] >>

\* The frame of a chat_stream call that has not run yet: request is its
\* argument, outputs what the model client has answered so far, steps the
\* number of times the call has been resumed
StartFrame(request) ==
    [request |-> request, outputs |-> <<>>, steps |-> 0, pc |-> "build",
     messages |-> <<>>, iteration |-> 0, stream |-> <<>>,
     response_chunks |-> <<>>, tool_calls |-> <<>>,
     current_tool_content |-> <<>>, in_tool_call |-> FALSE,
     execution_results |-> <<>>, yielded |-> <<>>]

\* The call is about to ask the model for a response (line 166)
Generating(f) == f.pc = "loop" /\ LoopGuard(f.iteration, max_iterations)

\* chat_stream runs from one suspension point to the next on the local
\* variables f of its frame; registry and has_parser are what it reads
\* from the service (lines 150-253)
FrameStep(f, registry, has_parser) ==
    LET g == [f EXCEPT !.steps = @ + 1]
    IN CASE f.pc = "build" ->
              [g EXCEPT !.messages = _build_messages(f.request),
                        !.iteration = 0,
                        !.pc = "loop"]
         [] Generating(f) ->
              [g EXCEPT !.iteration = @ + 1,
                        !.response_chunks = <<>>,
                        !.tool_calls = <<>>,
                        !.current_tool_content = <<>>,
                        !.in_tool_call = FALSE,
                        !.stream = f.outputs[f.iteration + 1],
                        !.pc = "streaming"]
         [] f.pc = "loop" /\ ~Generating(f) ->
              [g EXCEPT !.pc = "done"]
         [] f.pc = "streaming" /\ f.stream # <<>> ->
              LET chunk == Head(f.stream)
                  d == Detect(f.in_tool_call, f.current_tool_content,
                              f.tool_calls, chunk, has_parser)
              IN [g EXCEPT !.stream = Tail(@),
                           !.response_chunks = Append(@, chunk),
                           !.in_tool_call = d.in_tool_call,
                           !.current_tool_content = d.current_tool_content,
                           !.tool_calls = d.tool_calls,
                           !.yielded = Yield(@, chunk)]
         [] f.pc = "streaming" /\ f.stream = <<>> ->
              LET calls == Reparse(Join(f.response_chunks), f.tool_calls,
                                   has_parser)
              IN [g EXCEPT !.tool_calls = calls,
                           !.execution_results = <<>>,
                           !.pc = IF calls = <<>> THEN "done"
                                  ELSE IF has_parser THEN "executing"
                                  ELSE "done"]
         [] /\ f.pc = "executing"
            /\ Len(f.execution_results) < Len(f.tool_calls) ->
              LET r == execute(f.tool_calls[Len(f.execution_results) + 1],
                               registry)
              IN IF r.raised THEN [g EXCEPT !.pc = "raised"]
                 ELSE [g EXCEPT !.execution_results = Append(@, r.value)]
         [] /\ f.pc = "executing"
            /\ Len(f.execution_results) >= Len(f.tool_calls) ->
              LET tool_summary == format_tool_results(f.execution_results)
              IN IF tool_summary.raised THEN [g EXCEPT !.pc = "raised"]
                 ELSE [g EXCEPT !.messages =
                                   @ \o << AssistantTurn(f.response_chunks),
                                           ToolResultTurn(tool_summary.value) >>,
                                !.pc = "loop"]
         [] OTHER -> f

\* The frame a call runs on, with every round variable read from the
\* frame of the first call: round state kept on the service
OwnFrameOnService(fs, r) ==
    [fs[r] EXCEPT !.tool_calls = fs[1].tool_calls,
                  !.current_tool_content = fs[1].current_tool_content,
                  !.in_tool_call = fs[1].in_tool_call,
                  !.response_chunks = fs[1].response_chunks]

\* The frame call r runs on: the local variables of its own generator
\* (lines 150-164)
OwnFrame(fs, r) == fs[r]

\* What the model client answers in the rounds of the two calls: a block
\* cut inside its end, or text
TwoOutputs ==
    { << MARKER_START \o Pair(<<"n">>, <<"x">>) \o <<"<">>,
         <<"E", "T", " ", "y">> >>,
      << <<"y", " ", "y">> >> }

\* The registries of the two calls: no tool, or tool x with a handler that
\* returns a text, returns no result, or raises
TwoRegistries ==
    { << >> } \cup
    { [name \in {<<"x">>} |-> m] :
        m \in { m \in Manifests :
                  /\ m.protocol = "direct"
                  /\ \/ m.behaviour.kind = "raises"
                     \/ /\ m.behaviour.kind = "returns"
                        /\ m.behaviour.payload.status = "success"
                        /\ m.behaviour.payload.result
                              \in {PyStr(<<"y">>), PyNone} } }

\* The messages of the two requests
RequestOf(r) == IF r = 1 THEN <<"user message">> ELSE <<"other message">>

\* Two calls of chat_stream have been made on one service with a plugin
\* manager; neither has run yet
InitTwo ==
    /\ plugin_manager = TRUE
    /\ plugins \in TwoRegistries
    /\ ChatStart
    /\ ParserOff
    /\ ExecOff
    /\ SeparateOff
    /\ frames = [r \in Runs |-> StartFrame(RequestOf(r))]

\* Call r is resumed where the model client answers: it runs to its next
\* suspension point on the answer
RunGenerate(r) ==
    /\ Generating(OwnFrame(frames, r))
    /\ \E output \in TwoOutputs :
          frames' = [frames EXCEPT ![r] =
                        FrameStep([OwnFrame(frames, r) EXCEPT
                                      !.outputs = Append(@, output)],
                                  plugins, plugin_manager)]
    /\ UNCHANGED <<chatVars, parserVars, execVars, separateVars>>

\* Call r is resumed at any other suspension point
RunStep(r) ==
    /\ OwnFrame(frames, r).pc \notin {"done", "raised"}
    /\ ~Generating(OwnFrame(frames, r))
    /\ frames' = [frames EXCEPT ![r] =
                     FrameStep(OwnFrame(frames, r), plugins, plugin_manager)]
    /\ UNCHANGED <<chatVars, parserVars, execVars, separateVars>>

NextTwo ==
    \/ \E r \in Runs : RunGenerate(r)
    \/ \E r \in Runs : RunStep(r)

SpecTwo == InitTwo /\ [][NextTwo]_vars

\* ------------------------------------------ ToolCallParser.separate alone

\* The most tool calls in the list separate is given
MaxCalls == 3

\* The tool calls of the lists: normal and archery calls of two tools
CallTypes ==
    { [name |-> n, args |-> << >>, archery |-> a]
        : n \in {<<"x">>, <<"y">>}, a \in BOOLEAN }

\* separate is about to be called on a list of tool calls
InitSeparate ==
    /\ plugin_manager = FALSE
    /\ plugins = << >>
    /\ ChatStart
    /\ ParserOff
    /\ ExecOff
    /\ TwoOff
    /\ s_pc = "call"
    /\ s_tool_calls \in UNION { [1..n -> CallTypes] : n \in 0..MaxCalls }
    /\ s_result = <<>>

\* ToolCallParser.separate(tool_calls) is called and returns
SeparateCall ==
    /\ s_pc = "call"
    /\ s_result' = separate(s_tool_calls)
    /\ s_pc' = "returned"
    /\ UNCHANGED <<chatVars, parserVars, execVars, s_tool_calls, frames>>

NextSeparate == SeparateCall

SpecSeparate == InitSeparate /\ [][NextSeparate]_vars

\* ----------------------------------------- ToolExecutor.execute, by steps

\* The seconds that pass between two looks at the clock
TickSeconds == 30

\* The values of communication.timeout in the manifests of SpecExec
CommunicationTimeouts == {NoTimeout, 30000}

\* The tool names execute is given: x may be registered, y never is
ToolNames == {<<"x">>, <<"y">>}

\* The behaviours of a process that is still running when the timeout ends
TimeoutKinds == {"timeout", "timeout_exited"}

\* The behaviours of a process that exits within the timeout
ExitKinds ==
    {"exit_zero", "exit_nonzero", "exit_nonzero_silent", "bad_json",
     "bad_utf8"}

\* The manifest and the behaviour behind the tool execute was given
e_plugin == plugins[e_tool_call.name]

e_kind == e_plugin.behaviour.kind

\* Manifests that declare no protocol, with a module behind them
UndeclaredManifests ==
    {[protocol |-> NoProtocol, behaviour |-> b] : b \in DirectBehaviours}

\* The registries of SpecExec: those of Spec, and tool x registered with a
\* manifest that declares no protocol
ExecRegistries ==
    Registries \cup { [name \in {<<"x">>} |-> m] : m \in UndeclaredManifests }

\* execute(tool_call) is called on a ToolExecutor whose plugin manager
\* holds plugins
InitExec ==
    /\ plugin_manager = TRUE
    /\ plugins \in ExecRegistries
    /\ ChatStart
    /\ ParserOff
    /\ SeparateOff
    /\ TwoOff
    /\ e_pc = "call"
    /\ \E name \in ToolNames :
          e_tool_call = [name |-> name, args |-> << >>, archery |-> FALSE]
    /\ communication_timeout \in CommunicationTimeouts
    /\ e_clock = 0
    /\ process = "none"
    /\ kill_sent = FALSE
    /\ timeout_fired = FALSE
    /\ handler_calls = 0
    /\ spawned = 0
    /\ e_result = <<>>

\* execute returns what the code computes for this call
ExecReturn ==
    /\ e_result' = execute(e_tool_call, plugins)
    /\ e_pc' = "returned"

\* The call ends without a handler or a process: the tool is not
\* registered (tool_executor.py 50-57), the protocol is unknown, the module
\* has no process_tool_call, no command is configured or the process cannot
\* be created (plugin.py 117-139, 150-160, 202-205)
ReturnWithoutBackend ==
    /\ e_pc = "call"
    /\ \/ e_tool_call.name \notin DOMAIN plugins
       \/ /\ e_tool_call.name \in DOMAIN plugins
          /\ \/ Protocol(e_plugin) \notin {"direct", "stdio"}
             \/ Protocol(e_plugin) = "direct" /\ e_kind = "no_module"
             \/ /\ Protocol(e_plugin) = "stdio"
                /\ e_kind \in {"no_command", "not_found", "spawn_error"}
    /\ ExecReturn
    /\ UNCHANGED <<chatVars, parserVars, separateVars, frames,
                   e_tool_call, communication_timeout,
                   e_clock, process, kill_sent, timeout_fired,
                   handler_calls, spawned>>

\* process_tool_call of the module is called (plugin.py 127-133)
CallHandler ==
    /\ e_pc = "call"
    /\ e_tool_call.name \in DOMAIN plugins
    /\ Protocol(e_plugin) = "direct"
    /\ e_kind # "no_module"
    /\ handler_calls' = handler_calls + 1
    /\ e_pc' = "handler"
    /\ UNCHANGED <<chatVars, parserVars, separateVars, frames,
                   e_tool_call, communication_timeout,
                   e_clock, process, kill_sent, timeout_fired, spawned,
                   e_result>>

\* The handler returns or raises, and execute returns (plugin.py 133,
\* tool_executor.py 62-70)
HandlerDone ==
    /\ e_pc = "handler"
    /\ ExecReturn
    /\ UNCHANGED <<chatVars, parserVars, separateVars, frames,
                   e_tool_call, communication_timeout,
                   e_clock, process, kill_sent, timeout_fired,
                   handler_calls, spawned>>

\* create_subprocess_exec succeeds and communicate is awaited under
\* wait_for (plugin.py 163-178)
Spawn ==
    /\ e_pc = "call"
    /\ e_tool_call.name \in DOMAIN plugins
    /\ Protocol(e_plugin) = "stdio"
    /\ e_kind \in TimeoutKinds \cup ExitKinds
    /\ spawned' = spawned + 1
    /\ process' = "running"
    /\ e_clock' = 0
    /\ e_pc' = "communicate"
    /\ UNCHANGED <<chatVars, parserVars, separateVars, frames,
                   e_tool_call, communication_timeout,
                   kill_sent, timeout_fired, handler_calls, e_result>>

\* create_subprocess_exec succeeds, then json.dumps(input_data) or
\* input_json.encode raises before communicate is awaited; the last except
\* clause turns the exception into a result (plugin.py 163-177, 204-205)
SpawnInputError ==
    /\ e_pc = "call"
    /\ e_tool_call.name \in DOMAIN plugins
    /\ Protocol(e_plugin) = "stdio"
    /\ e_kind = "input_error"
    /\ spawned' = spawned + 1
    /\ process' = "running"
    /\ ExecReturn
    /\ UNCHANGED <<chatVars, parserVars, separateVars, frames,
                   e_tool_call, communication_timeout, e_clock,
                   kill_sent, timeout_fired, handler_calls>>

\* Time passes while the process runs; a process that exits within the
\* timeout does not run up to its end
Tick ==
    /\ e_pc = "communicate"
    /\ process = "running"
    /\ e_clock < TimeoutSeconds(communication_timeout)
    /\ \/ e_kind \in TimeoutKinds
       \/ e_clock + TickSeconds < TimeoutSeconds(communication_timeout)
    /\ e_clock' = e_clock + TickSeconds
    /\ UNCHANGED <<chatVars, parserVars, separateVars, frames,
                   e_pc, e_tool_call,
                   communication_timeout, process, kill_sent, timeout_fired,
                   handler_calls, spawned, e_result>>

\* The process exits within the timeout
ProcessExit ==
    /\ e_pc = "communicate"
    /\ process = "running"
    /\ e_kind \in ExitKinds
    /\ e_clock < TimeoutSeconds(communication_timeout)
    /\ process' = "exited"
    /\ UNCHANGED <<chatVars, parserVars, separateVars, frames,
                   e_pc, e_tool_call,
                   communication_timeout, e_clock, kill_sent, timeout_fired,
                   handler_calls, spawned, e_result>>

\* communicate returns the output of the exited process; the return code
\* and the output are read and execute returns (plugin.py 187-200)
CommunicateDone ==
    /\ e_pc = "communicate"
    /\ process = "exited"
    /\ ExecReturn
    /\ UNCHANGED <<chatVars, parserVars, separateVars, frames,
                   e_tool_call, communication_timeout,
                   e_clock, process, kill_sent, timeout_fired,
                   handler_calls, spawned>>

\* wait_for raises TimeoutError: the timeout has passed and the process
\* has not exited (plugin.py 179)
TimeoutError ==
    /\ e_pc = "communicate"
    /\ process = "running"
    /\ e_clock >= TimeoutSeconds(communication_timeout)
    /\ timeout_fired' = TRUE
    /\ e_pc' = "timed_out"
    /\ UNCHANGED <<chatVars, parserVars, separateVars, frames,
                   e_tool_call, communication_timeout,
                   e_clock, process, kill_sent, handler_calls, spawned,
                   e_result>>

\* The process exits by itself, and is reaped, while wait_for cancels
\* communicate: after the timeout and before process.kill()
LateExit ==
    /\ e_pc = "timed_out"
    /\ process = "running"
    /\ e_kind = "timeout_exited"
    /\ process' = "exited"
    /\ UNCHANGED <<chatVars, parserVars, separateVars, frames,
                   e_pc, e_tool_call,
                   communication_timeout, e_clock, kill_sent, timeout_fired,
                   handler_calls, spawned, e_result>>

\* process.kill() (plugin.py 181): the running process is signalled; for a
\* process that is gone kill raises ProcessLookupError, which the last
\* except clause turns into a result (line 204)
Kill ==
    /\ e_pc = "timed_out"
    /\ IF process = "running"
       THEN /\ e_kind = "timeout"
            /\ kill_sent' = TRUE
            /\ e_pc' = "waiting"
            /\ UNCHANGED e_result
       ELSE /\ ExecReturn
            /\ UNCHANGED kill_sent
    /\ UNCHANGED <<chatVars, parserVars, separateVars, frames,
                   e_tool_call, communication_timeout,
                   e_clock, process, timeout_fired, handler_calls, spawned>>

\* await process.wait() returns when the killed process has exited, and
\* the timeout result is returned (plugin.py 182-183)
Wait ==
    /\ e_pc = "waiting"
    /\ process' = "exited"
    /\ ExecReturn
    /\ UNCHANGED <<chatVars, parserVars, separateVars, frames,
                   e_tool_call, communication_timeout,
                   e_clock, kill_sent, timeout_fired, handler_calls, spawned>>

NextExec ==
    \/ ReturnWithoutBackend
    \/ CallHandler
    \/ HandlerDone
    \/ Spawn
    \/ SpawnInputError
    \/ Tick
    \/ ProcessExit
    \/ CommunicateDone
    \/ TimeoutError
    \/ LateExit
    \/ Kill
    \/ Wait

SpecExec == InitExec /\ [][NextExec]_vars

\* ------------------------------------------------ what a block declares

\* The positions of the pairs of ps with this key
KeyAt(ps, key) == {i \in 1..Len(ps) : ps[i].key = key}

\* The value of the last pair of ps with this key
LastValue(ps, key) ==
    ps[CHOOSE i \in KeyAt(ps, key) : \A j \in KeyAt(ps, key) : i >= j].value

\* The keys of ps other than the reserved tool_name and archery
ArgKeys(ps) == {ps[i].key : i \in 1..Len(ps)} \ {<<"n">>, <<"a">>}

\* The values a block declares, as written
DeclaredCall(ps) ==
    [name |-> LastValue(ps, <<"n">>),
     args |-> [k \in ArgKeys(ps) |-> LastValue(ps, k)],
     archery |-> IF KeyAt(ps, <<"a">>) = {} THEN FALSE
                 ELSE LastValue(ps, <<"a">>) = <<"t">>]

\* The values a block declares, without the whitespace around each value
TrimmedCall(ps) ==
    [name |-> strip(LastValue(ps, <<"n">>)),
     args |-> [k \in ArgKeys(ps) |-> strip(LastValue(ps, k))],
     archery |-> IF KeyAt(ps, <<"a">>) = {} THEN FALSE
                 ELSE strip(LastValue(ps, <<"a">>))
                         \in {<<"t">>, <<"no_reply">>}]

\* A block with a tool_name pair
Named(ps) == KeyAt(ps, <<"n">>) # {}

\* A block whose tool_name value is more than whitespace
NamedVisibly(ps) == Named(ps) /\ strip(LastValue(ps, <<"n">>)) # <<>>

\* The input text has no start delimiter before its first complete block
CleanBefore(d) == ~Contains(d.pre, MARKER_START)

\* C9 as stated: for a string holding one complete well-formed block with
\* text before and after it, parse returns exactly one ToolCall whose name
\* and args are the block's declared tool_name value and declared values
\* (read here for text with no start delimiter and a tool_name that is
\* more than whitespace).
C9_DeclaredValues ==
    (/\ p_pc = "returned"
     /\ Len(p_declared.blocks) = 1
     /\ CleanBefore(p_declared)
     /\ NamedVisibly(p_declared.blocks[1]))
    => p_result = << DeclaredCall(p_declared.blocks[1]) >>

\* C9 amended: when no start delimiter precedes the block and its
\* tool_name value is more than whitespace, parse returns exactly one
\* ToolCall: its name and args are the declared values with the whitespace
\* at both ends removed (the last value of a repeated key), the reserved
\* keys are no args, and archery is false without an archery key.
C9_TrimmedValues ==
    (/\ p_pc = "returned"
     /\ Len(p_declared.blocks) = 1
     /\ CleanBefore(p_declared)
     /\ NamedVisibly(p_declared.blocks[1]))
    => p_result = << TrimmedCall(p_declared.blocks[1]) >>

\* parse has returned the call of a block that repeats a key and pads a
\* value, with text before it and an unfinished block after it
C9_Witness ==
    /\ p_pc = "returned"
    /\ p_declared.pre = <<"x", " ">>
    /\ p_declared.post # <<>>
    /\ Len(p_declared.blocks) = 1
    /\ Len(p_declared.blocks[1]) = 3
    /\ p_declared.blocks[1][1] = [key |-> <<"k">>, value |-> <<"x">>]
    /\ p_declared.blocks[1][2] = [key |-> <<"n">>, value |-> <<" ", "y", " ">>]
    /\ p_declared.blocks[1][3] = [key |-> <<"k">>, value |-> <<" ", "y", " ">>]
    /\ Len(p_result) = 1
    /\ p_result[1].name = <<"y">>
    /\ p_result[1].archery = FALSE

\* C10: for a string holding several complete well-formed blocks one after
\* another, parse returns one ToolCall per block, in the order of the
\* blocks: the i-th ToolCall carries the i-th block's tool_name.
C10_OnePerBlockInOrder ==
    (/\ p_pc = "returned"
     /\ Len(p_declared.blocks) >= 2
     /\ CleanBefore(p_declared)
     /\ \A i \in 1..Len(p_declared.blocks) :
            NamedVisibly(p_declared.blocks[i]))
    => /\ Len(p_result) = Len(p_declared.blocks)
       /\ \A i \in 1..Len(p_declared.blocks) :
            p_result[i].name = strip(LastValue(p_declared.blocks[i], <<"n">>))

\* parse has returned the calls of three blocks x, y, x in that order
C10_Witness ==
    /\ p_pc = "returned"
    /\ Len(p_declared.blocks) = 3
    /\ Len(p_result) = 3
    /\ p_result[1].name = <<"x">>
    /\ p_result[2].name = <<"y">>
    /\ p_result[3].name = <<"x">>

\* --------------------------------------------------------- the tool loop

\* chat_stream has ended: it returned, or an exception left it
Ended == pc \in {"done", "raised"}

\* The text the model emitted in round r
RoundText(r) == Join(emitted[r])

\* The rounds whose two turns are in the message list
RecordedRounds == 1..((Len(messages) - Len(InitialMessages)) \div 2)

\* Where chat_stream stands inside an iteration of the while loop: the for
\* loop over the stream comes first, then execute_all and the appends, then
\* the while condition is tested again
PhaseRank ==
    CASE pc = "streaming" -> 3
      [] pc = "executing" -> 2
      [] pc = "loop" -> 1
      [] OTHER -> 0

\* What chat_stream still has to do, most significant first: iterations the
\* while condition still admits, phases of the current iteration, chunks of
\* the stream, tool calls of execute_all
Remaining ==
    << max_iterations - iteration,
       PhaseRank,
       Len(stream),
       IF pc = "executing" THEN Len(tool_calls) - Len(execution_results)
       ELSE 0 >>

\* a comes before b in the lexicographic order
LexLess(a, b) ==
    \E i \in 1..Len(a) :
       /\ a[i] < b[i]
       /\ \A j \in 1..(i - 1) : a[j] = b[j]

\* A statement of chat_stream can run: one of the guards of the loop holds
CanStep ==
    \/ pc = "loop"
    \/ pc = "streaming"
    \/ pc = "executing" /\ Len(execution_results) <= Len(tool_calls)

\* C2: with a plugin manager, chat_stream starts at most
\* max_tool_iterations model generations, whatever the model emits and the
\* tools return, and then ends: what remains to do is a tuple of naturals
\* that every step makes smaller, and chat_stream is never stuck before
\* it has ended.
C2_BoundedGenerations ==
    /\ [](plugin_manager => Len(emitted) <= max_tool_iterations)
    /\ [](\A i \in 1..Len(Remaining) : Remaining[i] \in Nat)
    /\ [][LexLess(Remaining', Remaining)]_vars
    /\ [](Ended \/ CanStep)

\* chat_stream has returned after max_tool_iterations rounds that all had
\* tool calls
C2_Witness ==
    /\ plugin_manager
    /\ pc = "done"
    /\ Len(emitted) = max_tool_iterations
    /\ Len(messages) = Len(InitialMessages) + 2 * max_tool_iterations

\* C3 as stated: when the model emits a complete tool-request block in
\* every round, chat_stream ends after exactly max_tool_iterations
\* generations and has delivered text.
C3_ExactlyMaxRounds ==
    (/\ plugin_manager
     /\ Ended
     /\ \A r \in 1..Len(emitted) : parse(RoundText(r)) # <<>>)
    => /\ Len(emitted) = max_tool_iterations
       /\ yielded # <<>>

\* The backend of the tool fails: the tool is not registered, its protocol
\* is unknown, its handler is missing or raises, its process does not
\* start, times out, exits with an error or prints no JSON, or what comes
\* back is no dict with status 'success'
BackendFails(name) ==
    \/ name \notin DOMAIN plugins
    \/ Protocol(plugins[name]) \notin {"direct", "stdio"}
    \/ plugins[name].behaviour.kind \notin {"returns", "exit_zero"}
    \/ ~plugins[name].behaviour.payload.isdict
    \/ plugins[name].behaviour.payload.status # "success"

\* C4: ToolExecutor.execute never raises; when the backend fails it returns
\* an outcome with success = false and an error text in content.
C4_ExecuteNeverRaises ==
    /\ pc = "raised" => Len(execution_results) = Len(tool_calls)
    /\ pc \in {"executing", "raised"} =>
       \A i \in 1..Len(execution_results) :
          BackendFails(tool_calls[i].name) =>
             /\ ~execution_results[i].success
             /\ execution_results[i].tool_name = tool_calls[i].name
             /\ execution_results[i].content.type = "str"
             /\ Len(execution_results[i].content.val) >= 2
             /\ execution_results[i].content.val[1] = "[error] "

\* execute has returned a failure for a call whose handler returned a value
\* that is no dict
C4_Witness ==
    /\ pc = "executing"
    /\ execution_results # <<>>
    /\ tool_calls[1].name \in DOMAIN plugins
    /\ plugins[tool_calls[1].name].behaviour.kind = "returns"
    /\ ~plugins[tool_calls[1].name].behaviour.payload.isdict
    /\ ~execution_results[1].success

\* C5 as stated: while the model's streams complete without error, no
\* exception leaves chat_stream, whatever the tool outcomes are.
C5_NeverRaises == pc # "raised"

\* C6: the chunks chat_stream has yielded are the chunks the model has
\* emitted, over all rounds, unmodified, once each and in the same order.
C6_YieldsEveryChunk == yielded = Join(emitted)

\* chat_stream has ended after two rounds or more and has yielded a chunk
\* with a start delimiter among four chunks or more
C6_Witness ==
    /\ pc = "done"
    /\ Len(emitted) >= 2
    /\ Len(yielded) >= 4
    /\ \E i \in 1..Len(yielded) : Contains(yielded[i], MARKER_START)

\* C7: the text recorded for a round is the concatenation, in order, of the
\* chunks the model emitted in that round: response_chunks holds them
\* while the round runs, and the assistant turn of every recorded round
\* has that text as content.
C7_RecordedTextIsRoundText ==
    /\ pc \in {"streaming", "executing"} =>
          response_chunks = emitted[Len(emitted)]
    /\ \A r \in RecordedRounds :
          messages[Len(InitialMessages) + 2 * r - 1] =
             [role |-> "assistant", content |-> RoundText(r)]

\* the turn of a round emitted in three chunks, delimiters included, is in
\* the message list
C7_Witness ==
    /\ Len(messages) >= Len(InitialMessages) + 2
    /\ Len(emitted[1]) = 3
    /\ Contains(messages[Len(InitialMessages) + 1].content, MARKER_START)
    /\ Contains(messages[Len(InitialMessages) + 1].content, MARKER_END)

\* ------------------------------------------------- detection in one round

\* The positions after which a chunk of chunks ends
RECURSIVE ChunkEnds(_)
ChunkEnds(chunks) ==
    IF Len(chunks) <= 1 THEN {}
    ELSE {Len(Head(chunks))} \cup
         {Len(Head(chunks)) + e : e \in ChunkEnds(Tail(chunks))}

\* Every start delimiter of the chunks lies inside one chunk
StartsInsideChunks(chunks) ==
    \A i \in 1..Len(Join(chunks)) :
       StartsAt(Join(chunks), MARKER_START, i) =>
          \A e \in ChunkEnds(chunks) : ~(i <= e /\ e < i + Len(MARKER_START) - 1)

\* C1 as stated: when every start delimiter lies inside a chunk, the calls
\* collected after any number of chunks are those parse returns on the
\* concatenation of these chunks: none before the end delimiter has come,
\* then the same calls in the same order.
C1_StreamingEquivalence ==
    (/\ pc = "streaming"
     /\ plugin_manager
     /\ StartsInsideChunks(response_chunks))
    => tool_calls = parse(Join(response_chunks))

\* C8 as stated: however the round's text is cut into chunks, the calls
\* pending at the end of the round include the call of every complete
\* block of the text.
C8_EveryBlockPending ==
    (/\ pc \in {"executing", "done"}
     /\ plugin_manager
     /\ emitted # <<>>)
    => \A i \in 1..Len(parse(Join(response_chunks))) :
          \E j \in 1..Len(tool_calls) :
             tool_calls[j] = parse(Join(response_chunks))[i]

\* ------------------------------------------------- execute, step by step

\* The error text of the timeout result (plugin.py 183)
TimeoutMessage(plugin_name) ==
    <<"Plugin '">> \o plugin_name \o <<"' execution timeout">>

\* C11 as stated: when the process has not exited within the timeout,
\* the process is killed and waited for and a timeout failure is returned;
\* when execute returns the process is not running and success is false.
C11_TimeoutKillsProcess ==
    /\ timeout_fired => e_clock >= TimeoutSeconds(communication_timeout)
    /\ (e_pc = "returned" /\ timeout_fired) =>
          /\ kill_sent
          /\ process = "exited"
          /\ ~e_result.raised
          /\ ~e_result.value.success
          /\ e_result.value.error = TimeoutMessage(e_tool_call.name)

\* execute has returned for a registered stdio plugin whose process exited
\* with code 0 and wrote valid JSON
ExitedZeroWithJson ==
    /\ e_pc = "returned"
    /\ e_tool_call.name \in DOMAIN plugins
    /\ e_plugin.protocol = "stdio"
    /\ e_kind = "exit_zero"

\* The JSON the process wrote
e_json == e_plugin.behaviour.payload

\* The content a JSON object declares: result.content when result is an
\* object with a content field, result otherwise (None when it is missing)
DeclaredContent(json) ==
    IF json.result.type = "dict" /\ json.result.content # <<>>
    THEN json.result.content[1]
    ELSE IF json.result.type = "absent" THEN PyNone
    ELSE json.result

\* The outcome is a success with the declared content and the JSON as raw
SuccessFrom(json) ==
    /\ ~e_result.raised
    /\ e_result.value.success
    /\ e_result.value.content = DeclaredContent(json)
    /\ e_result.value.has_raw
    /\ e_result.value.raw = json

\* C12 as stated: exit code 0 and valid JSON on standard output always
\* give a success whose content is the JSON's result (result.content for
\* a rich result) and whose raw is the JSON.
C12_ZeroExitJsonIsSuccess ==
    ExitedZeroWithJson => SuccessFrom(e_json)

\* C12: exit code 0 and a JSON object whose status is 'success' give a
\* success whose content is the object's result (result.content for a rich
\* result) and whose raw is the object.
C12_SuccessStatusIsSuccess ==
    (ExitedZeroWithJson /\ e_json.isdict /\ e_json.status = "success")
    => SuccessFrom(e_json)

\* execute has returned the content of a rich result of a process
C12_Witness ==
    /\ ExitedZeroWithJson
    /\ e_json.isdict
    /\ e_json.status = "success"
    /\ e_json.result = PyRich(PyStr(<<"y">>))
    /\ e_result.value.content = PyStr(<<"y">>)
    /\ process = "exited"
    /\ spawned = 1

\* execute has returned for a registered stdio plugin whose process
\* behaved as kind says
StdioReturned(kind) ==
    /\ e_pc = "returned"
    /\ e_tool_call.name \in DOMAIN plugins
    /\ e_plugin.protocol = "stdio"
    /\ e_kind = kind

\* The outcome is a failure whose content is a text that holds part
FailureNaming(part) ==
    /\ ~e_result.raised
    /\ ~e_result.value.success
    /\ e_result.value.content.type = "str"
    /\ \E i \in 1..Len(e_result.value.content.val) :
          e_result.value.content.val[i] = part

\* C13: a non-zero exit code gives a failure whose content carries what
\* the process wrote to its error stream; exit code 0 with output that is
\* no JSON gives a failure whose content names the parse error.
C13_ProcessFailuresAreFailures ==
    /\ StdioReturned("exit_nonzero") => FailureNaming("stderr text")
    /\ StdioReturned("exit_nonzero_silent") => FailureNaming("Unknown error")
    /\ StdioReturned("bad_json") => FailureNaming("Expecting value")
    /\ StdioReturned("bad_utf8") => FailureNaming("codec can't decode")

\* execute has returned the failure of a process that exited with an
\* error code and a text on its error stream
C13_Witness ==
    /\ StdioReturned("exit_nonzero")
    /\ process = "exited"
    /\ ~kill_sent
    /\ FailureNaming("stderr text")

\* The outcome is a failure whose content is a text that holds the tokens
\* of text in a row
FailureWith(text) ==
    /\ ~e_result.raised
    /\ ~e_result.value.success
    /\ e_result.value.content.type = "str"
    /\ Contains(e_result.value.content.val, text)

\* C14: for a name that is not in the registry execute returns a failure
\* whose content holds the name; it does not raise, calls no handler and
\* creates no process.
C14_UnknownToolNamed ==
    (e_pc = "returned" /\ e_tool_call.name \notin DOMAIN plugins)
    => /\ FailureWith(e_tool_call.name)
       /\ e_result.value.tool_name = e_tool_call.name
       /\ handler_calls = 0
       /\ spawned = 0
       /\ process = "none"

\* execute has returned for tool y while only tool x is registered
C14_Witness ==
    /\ e_pc = "returned"
    /\ e_tool_call.name = <<"y">>
    /\ DOMAIN plugins = {<<"x">>}
    /\ FailureWith(<<"y">>)

\* The message of the error the handlers of the model raise
HandlerMessage == <<"boom">>

\* C15: when the handler of a registered direct plugin raises an error,
\* execute returns a failure whose content holds the error's message; the
\* handler was called once and execute does not raise.
C15_HandlerErrorCaptured ==
    /\ handler_calls <= 1
    /\ e_pc = "handler" => handler_calls = 1
    /\ (/\ e_pc = "returned"
        /\ e_tool_call.name \in DOMAIN plugins
        /\ Protocol(e_plugin) = "direct"
        /\ e_kind = "raises")
       => /\ FailureWith(HandlerMessage)
          /\ handler_calls = 1
          /\ spawned = 0

\* execute has returned the failure of a handler that raised
C15_Witness ==
    /\ e_pc = "returned"
    /\ e_tool_call.name \in DOMAIN plugins
    /\ Protocol(e_plugin) = "direct"
    /\ e_kind = "raises"
    /\ handler_calls = 1
    /\ FailureWith(HandlerMessage)

\* ------------------------------------------------ parse, block by block

\* parse has returned for a text with no start delimiter before its blocks,
\* all of which have a tool_name that is more than whitespace
ReturnedForNamedBlocks ==
    /\ p_pc = "returned"
    /\ CleanBefore(p_declared)
    /\ \A i \in 1..Len(p_declared.blocks) : NamedVisibly(p_declared.blocks[i])

\* The block has an archery pair with this value
HasArchery(ps, value) ==
    \E i \in KeyAt(ps, <<"a">>) : ps[i].value = value

NamedBlocks(d) == SelectSeq(d.blocks, NamedVisibly)

\* C17: a complete block without a tool_name key gives no ToolCall, and
\* parse returns the calls of the other blocks of the text, in their order.
C17_UnnamedBlockSkipped ==
    (p_pc = "returned" /\ CleanBefore(p_declared)) =>
       /\ Len(p_result) = Len(NamedBlocks(p_declared))
       /\ \A j \in 1..Len(p_result) :
             p_result[j] = TrimmedCall(NamedBlocks(p_declared)[j])

\* parse has returned the one call of a text with a named block between
\* two blocks that have pairs and no tool_name
C17_Witness ==
    /\ p_pc = "returned"
    /\ CleanBefore(p_declared)
    /\ Len(p_declared.blocks) = 3
    /\ ~Named(p_declared.blocks[1])
    /\ NamedVisibly(p_declared.blocks[2])
    /\ ~Named(p_declared.blocks[3])
    /\ Len(p_result) = 1
    /\ p_result[1].name = <<"x">>

\* The text before the unfinished tail of a parser input
WithoutTail(d) == d.pre \o FormatBlocks(d.blocks)

\* C18: for a text with no start delimiter parse returns no ToolCall; a
\* start delimiter with no end delimiter after it adds nothing and takes
\* nothing away: parse returns what it returns for the text before it,
\* which is nothing when no end delimiter follows the first start delimiter.
C18_IncompleteIsNoCall ==
    p_pc = "returned" =>
       /\ ~Contains(p_content, MARKER_START) => p_result = <<>>
       /\ p_declared.post # <<>> =>
             p_result = parse(WithoutTail(p_declared))
       /\ (/\ Contains(p_content, MARKER_START)
           /\ Find(p_content, MARKER_END,
                   Find(p_content, MARKER_START, 1)) = 0)
          => p_result = <<>>
       /\ CleanBefore(p_declared) =>
             Len(p_result) = Len(NamedBlocks(p_declared))

\* parse has returned the calls of two complete blocks that are followed
\* by text and a start delimiter with no end delimiter
C18_Witness ==
    /\ p_pc = "returned"
    /\ CleanBefore(p_declared)
    /\ p_declared.post # <<>>
    /\ Contains(p_declared.post, MARKER_START)
    /\ ~Contains(p_declared.post, MARKER_END)
    /\ Len(p_declared.blocks) = 2
    /\ Len(p_result) = 2

\* ------------------------------------------------------------- separate

RECURSIVE IsSubsequence(_, _)
\* a is what is left of b when some of its elements are taken away
IsSubsequence(a, b) ==
    IF a = <<>> THEN TRUE
    ELSE IF b = <<>> THEN FALSE
    ELSE IF Head(a) = Head(b) THEN IsSubsequence(Tail(a), Tail(b))
    ELSE IsSubsequence(a, Tail(b))

\* How many times c is in the list
Count(list, c) == Cardinality({i \in 1..Len(list) : list[i] = c})

\* C20: separate puts every tool call of its input in exactly one of the
\* two lists, 'archery' when its flag is set and 'normal' when it is not;
\* each list keeps the order of the input and the lengths add up.
C20_SeparatePartitions ==
    s_pc = "returned" =>
       /\ DOMAIN s_result = {"normal", "archery"}
       /\ \A i \in 1..Len(s_result.normal) : ~s_result.normal[i].archery
       /\ \A i \in 1..Len(s_result.archery) : s_result.archery[i].archery
       /\ Len(s_result.normal) + Len(s_result.archery) = Len(s_tool_calls)
       /\ \A c \in CallTypes :
             Count(s_tool_calls, c) =
                Count(s_result.normal, c) + Count(s_result.archery, c)
       /\ IsSubsequence(s_result.normal, s_tool_calls)
       /\ IsSubsequence(s_result.archery, s_tool_calls)

\* separate has returned for a list of a normal call between two archery
\* calls
C20_Witness ==
    /\ s_pc = "returned"
    /\ Len(s_tool_calls) = 3
    /\ s_tool_calls[1].archery
    /\ ~s_tool_calls[2].archery
    /\ s_tool_calls[3].archery
    /\ s_tool_calls[1] # s_tool_calls[3]
    /\ Len(s_result.normal) = 1
    /\ s_result.archery = << s_tool_calls[1], s_tool_calls[3] >>

\* ------------------------------------------------------------ two calls

RECURSIVE Replay(_, _)
\* The frame after n more resumptions of a call that runs alone
Replay(f, n) ==
    IF n = 0 THEN f
    ELSE Replay(FrameStep(f, plugins, plugin_manager), n - 1)

\* The frame of a call that has run alone on this request, has been given
\* these model outputs and has been resumed n times
SoloFrame(request, outputs, n) ==
    Replay([StartFrame(request) EXCEPT !.outputs = outputs], n)

OutcomeOf(tool_call) == execute(tool_call, plugins).value

\* C21: in the executing step every pending invocation is dispatched, the
\* archery ones too, one at a time in detection order: outcome i is the
\* outcome of invocation i, each step adds the outcome of the next invocation
\* and leaves the list of invocations alone, a failed outcome does not stop
\* the later ones, and the turns are appended only when every invocation has
\* its outcome.
C21_DispatchedInOrder ==
    /\ [](pc = "executing" =>
            /\ Len(execution_results) <= Len(tool_calls)
            /\ \A i \in 1..Len(execution_results) :
                  /\ execution_results[i] = OutcomeOf(tool_calls[i])
                  /\ execution_results[i].tool_name = tool_calls[i].name)
    /\ [][(pc = "executing" /\ Len(execution_results) < Len(tool_calls)) =>
            /\ pc' = "executing"
            /\ tool_calls' = tool_calls
            /\ execution_results' =
                  Append(execution_results,
                         OutcomeOf(tool_calls[Len(execution_results) + 1]))]_vars
    /\ [][messages' # messages =>
            /\ pc = "executing"
            /\ Len(execution_results) = Len(tool_calls)]_vars

\* Four invocations of two tools were executed: the first failed, the later
\* ones were still executed, and an archery one succeeded
C21_Witness ==
    /\ pc = "executing"
    /\ Len(tool_calls) = 4
    /\ Len(execution_results) = 4
    /\ ~execution_results[1].success
    /\ tool_calls[1].name # tool_calls[3].name
    /\ tool_calls[3].archery
    /\ execution_results[3].success
    /\ execution_results[3].tool_name = tool_calls[3].name

\* ------------------------------------------------------------------- C22

\* The two turns of the round that has just been executed: the full text of
\* the round, then the summary of its outcomes
TurnsOfRound ==
    << [role |-> "assistant", content |-> Join(emitted[Len(emitted)])],
       [role |-> "user",
        content |-> <<"<!-- VCP_TOOL_PAYLOAD -->\n">>
                    \o format_tool_results(execution_results).value] >>

\* Every invocation of the round has its outcome and none is missing
RoundExecuted ==
    /\ pc = "executing"
    /\ tool_calls # <<>>
    /\ Len(execution_results) = Len(tool_calls)

\* The message list changes only by the two turns of a round, appended after
\* the last outcome, and a generation starts from the list as it was left
C22_OnlyTwoTurns ==
    /\ [][messages' # messages =>
            /\ RoundExecuted
            /\ ~format_tool_results(execution_results).raised
            /\ messages' = messages \o TurnsOfRound]_vars
    /\ [][(pc = "loop" /\ pc' = "streaming") =>
            /\ messages' = messages
            /\ Len(messages) = Len(InitialMessages) + 2 * iteration
            /\ iteration > 0 =>
                  SubSeq(messages, Len(messages) - 1, Len(messages))
                     = TurnsOfRound]_vars

\* C22 as stated: when a round ends with at least one pending invocation,
\* then after all of them were executed, and never while the stream is
\* consumed, exactly two entries are appended: the assistant turn with the
\* full text of the round, then the user turn with the summary of the
\* outcomes; the earlier entries stay as they are and the next generation
\* receives the extended list.
C22_TwoTurnsAppended ==
    /\ C22_OnlyTwoTurns
    /\ [][(RoundExecuted /\ pc' # "executing") =>
            /\ pc' = "loop"
            /\ messages' = messages \o TurnsOfRound]_vars

\* ------------------------------------------------------------- SpecFormat
\* chat_stream with tools that return long texts

\* The length of a long text: more than TruncateAt
LongLen == 1500

\* A text of LongLen characters
LongText == [i \in 1..LongLen |-> "c"]

\* Direct plugins whose handler returns a short or a long result, or a short
\* or a long error text
FormatManifests ==
    {[protocol |-> "direct",
      behaviour |-> [kind |-> "returns",
                     payload |-> [isdict |-> TRUE, status |-> "success",
                                  error |-> Absent, result |-> PyStr(t)]]]
        : t \in {<<"y">>, LongText}}
    \cup
    {[protocol |-> "direct",
      behaviour |-> [kind |-> "returns",
                     payload |-> [isdict |-> TRUE, status |-> "error",
                                  error |-> PyStr(t), result |-> Absent]]]
        : t \in {<<"boom">>, LongText}}

\* Tools x and y, each registered with one of these manifests
FormatRegistries ==
    { [name \in ToolNames |-> IF name = <<"x">> THEN mx ELSE my]
        : mx \in FormatManifests, my \in FormatManifests }

\* The model calls x and y in every round, one block per chunk
FormatOutputs == { << Block(<<"x">>), Block(<<"y">>) >> }

InitFormat ==
    /\ plugin_manager = TRUE
    /\ plugins \in FormatRegistries
    /\ ChatStart
    /\ ParserOff
    /\ ExecOff
    /\ SeparateOff
    /\ TwoOff

GenerateFormat == \E output \in FormatOutputs : GenerateOutput(output)

NextFormat ==
    \/ GenerateFormat
    \/ Chunk
    \/ EndStream
    \/ ExecuteTool
    \/ AppendResults
    \/ Exhausted

SpecFormat == InitFormat /\ [][NextFormat]_vars

\* ------------------------------------------------------------------- C23

\* The start of the lines of one outcome in the summary: name and status
EntryHead(result) ==
    <<"- tool: ">> \o result.tool_name
    \o << IF result.success THEN "\n- status: success\n- content: "
          ELSE "\n- status: failed\n- error: " >>

\* The first position >= from where m occurs in a long text, 0 for none
FirstAt(text, m, from) ==
    LET at == {i \in from..Len(text) : StartsAt(text, m, i)}
    IN IF at = {} THEN 0 ELSE CHOOSE i \in at : \A j \in at : i <= j

RECURSIVE HeadsInOrder(_, _, _)
\* The outcomes are listed in text from position from on, in their order
HeadsInOrder(text, results, from) ==
    \/ results = <<>>
    \/ LET at == FirstAt(text, EntryHead(Head(results)), from)
       IN /\ at # 0
          /\ HeadsInOrder(text, Tail(results),
                          at + Len(EntryHead(Head(results))))

\* The pieces of the summary of one outcome besides its content: the two
\* line heads, the tool name, the mark of a cut and the end of the line
OutcomeOverhead == 5

\* The pieces of the follow-up message around the outcomes
MessageOverhead == 3

\* The follow-up message of the round that has just been executed
FollowUp == messages[Len(messages)].content

\* C23 as stated: the follow-up message lists every outcome with its tool
\* name, its status and its content, and the content of one outcome (the
\* payload of a success, the error text of a failure) is cut to at most
\* TruncateAt = 1000 characters, so the message is no longer than a fixed
\* amount per outcome.
C23_ContentCut ==
    (pc = "loop" /\ iteration > 0) =>
        /\ HeadsInOrder(FollowUp, execution_results, 1)
        /\ Len(FollowUp) <= MessageOverhead
              + Len(execution_results) * (TruncateAt + OutcomeOverhead)

\* The same bound for the rounds where every outcome is a success
C23_SuccessContentCut ==
    (/\ pc = "loop"
     /\ iteration > 0
     /\ \A i \in 1..Len(execution_results) : execution_results[i].success) =>
        /\ HeadsInOrder(FollowUp, execution_results, 1)
        /\ Len(FollowUp) <= MessageOverhead
              + Len(execution_results) * (TruncateAt + OutcomeOverhead)

\* A long payload of a success has been cut in the follow-up message
C23_LongPayloadCut ==
    /\ pc = "loop"
    /\ iteration > 0
    /\ \A i \in 1..Len(execution_results) :
          /\ execution_results[i].success
          /\ Len(execution_results[i].content.val) = LongLen
    /\ FirstAt(FollowUp, <<"c", "...">>, 1) = TruncateAt + 5

\* ------------------------------------------------------------------- C24

\* The stream of the round has ended inside a block: a start delimiter was
\* seen and no end delimiter was found in the block buffer
EndsInsideBlock ==
    /\ pc = "streaming"
    /\ stream = <<>>
    /\ in_tool_call

\* Every call of found is in calls
AllPending(found, calls) ==
    \A i \in 1..Len(found) : \E j \in 1..Len(calls) : calls[j] = found[i]

\* C24 as stated: when the stream of a round ends inside a block, the full
\* text of the round is parsed once more, whether or not invocations were
\* already collected, and what that parse finds is pending when the round
\* is decided.
C24_FinalParseInsideBlock ==
    /\ [](EndsInsideBlock =>
            ReparseRuns(Join(response_chunks), tool_calls, plugin_manager))
    /\ [][EndsInsideBlock =>
            AllPending(parse(Join(response_chunks)), tool_calls')]_vars

\* The part of C24 that is seen in the pending list
C24_FinalParseResultPending ==
    [][EndsInsideBlock =>
         AllPending(parse(Join(response_chunks)), tool_calls')]_vars

\* The final parse when no invocation was collected in the round
C24_FinalParseWhenNoneCollected ==
    /\ [](EndsInsideBlock /\ tool_calls = <<>> =>
            ReparseRuns(Join(response_chunks), tool_calls, plugin_manager))
    /\ [][EndsInsideBlock /\ tool_calls = <<>> =>
            tool_calls' = parse(Join(response_chunks))]_vars

\* ------------------------------------------------------------------- C25

\* text holds a start delimiter and an end delimiter after it
HasCompleteBlock(text) ==
    \E i \in 1..Len(text) :
       /\ StartsAt(text, MARKER_START, i)
       /\ Find(text, MARKER_END, i + Len(MARKER_START)) # 0

\* C25 as stated: at every point of a round, every pending invocation was
\* produced from text in which a start delimiter and a later end delimiter
\* had both been emitted: no invocation exists for a block whose end
\* delimiter has not arrived.
C25_OnlyCompleteBlocksPending ==
    (pc \in {"streaming", "executing", "done"} /\ tool_calls # <<>>) =>
        HasCompleteBlock(Join(response_chunks))

\* The same for the rounds where no chunk holds an end delimiter before a
\* start delimiter
C25_PendingWhenChunksStartFirst ==
    (/\ pc \in {"streaming", "executing", "done"}
     /\ tool_calls # <<>>
     /\ \A c \in 1..Len(response_chunks) :
           ~HasCompleteBlock(response_chunks[c] \o response_chunks[c]))
    => HasCompleteBlock(Join(response_chunks))

\* ------------------------------------------------------------------- C26

\* The chunks of all rounds, joined in the order they were emitted
EmittedText == Join([r \in 1..Len(emitted) |-> RoundText(r)])

\* C26: when the stream of a round ends and no invocation is pending,
\* chat_stream finishes: no tool is executed, nothing is appended to the
\* message list, no further generation starts, and the text delivered is the
\* concatenation of the chunks of all rounds.
C26_NoCallEndsTurn ==
    /\ [][(pc = "streaming" /\ stream = <<>> /\ tool_calls' = <<>>) =>
            /\ pc' = "done"
            /\ messages' = messages
            /\ execution_results' = <<>>
            /\ iteration' = iteration
            /\ emitted' = emitted
            /\ yielded' = yielded]_vars
    /\ [][pc = "done" => FALSE]_vars
    /\ [](pc = "done" => Join(yielded) = EmittedText)

\* A turn has ended in its second round, which held no invocation, after a
\* first round whose tool was executed
C26_Witness ==
    /\ plugin_manager
    /\ pc = "done"
    /\ tool_calls = <<>>
    /\ execution_results = <<>>
    /\ Len(emitted) = 2
    /\ Len(messages) = Len(InitialMessages) + 2
    /\ Join(yielded) = EmittedText
    /\ Len(yielded) > Len(emitted[2])

\* ------------------------------------------------------------------- C27

\* The round in which iteration has reached max_tool_iterations
LastRound == plugin_manager /\ iteration = max_tool_iterations

\* What holds of the last round whether or not the summary can be built:
\* its invocations are executed, no generation follows it, and nothing is
\* added to the list or to the delivered text after its two turns
C27_LastRoundNotConsumed ==
    /\ [][(LastRound /\ pc = "streaming" /\ stream = <<>>
              /\ tool_calls' # <<>>) => pc' = "executing"]_vars
    /\ [][(LastRound /\ RoundExecuted /\ pc' = "loop") =>
            messages' = messages \o TurnsOfRound]_vars
    /\ [][(LastRound /\ pc = "loop") =>
            /\ pc' = "done"
            /\ messages' = messages
            /\ yielded' = yielded
            /\ emitted' = emitted]_vars
    /\ [](LastRound /\ pc = "done" /\ tool_calls # <<>> =>
            /\ Len(emitted) = max_tool_iterations
            /\ Len(messages) = Len(InitialMessages) + 2 * max_tool_iterations
            /\ SubSeq(messages, Len(messages) - 1, Len(messages))
                  = TurnsOfRound
            /\ Join(yielded) = EmittedText)

\* C27 as stated: in the round in which iteration reaches
\* max_tool_iterations the invocations found are still executed and the
\* assistant turn and the tool-result turn are still appended before the
\* loop ends; no later generation consumes them and no budget-exhausted
\* message is added to the list or to the delivered text.
C27_LastRoundStillAppended ==
    /\ C27_LastRoundNotConsumed
    /\ [][(LastRound /\ RoundExecuted /\ pc' # "executing") =>
            /\ pc' = "loop"
            /\ messages' = messages \o TurnsOfRound]_vars

\* The loop has ended after the last round, whose tools were executed
C27_LastRoundReached ==
    /\ LastRound
    /\ pc = "done"
    /\ tool_calls # <<>>
    /\ Len(execution_results) = Len(tool_calls)

\* ------------------------------------------------------------------- C28

\* The tool execute was given is registered
Registered == e_tool_call.name \in DOMAIN plugins

\* The outcome execute makes of what a backend has returned, whichever
\* backend it was
OutcomeOfPayload(tool_name, payload) ==
    LET r == _process_result(tool_name, payload)
    IN IF r.raised
       THEN _create_error_result(tool_name,
                                 <<"execution error: ">> \o r.message)
       ELSE r.value

\* C28: process_tool_call routes by the protocol of the manifest only:
\* 'stdio' goes to the process and never calls the handler; 'direct', also
\* when no protocol is declared, calls the handler once and creates no
\* process; any other protocol returns an error naming it and runs neither;
\* what either backend returns is turned into the outcome in the same way.
C28_RoutedByProtocol ==
    Registered =>
      /\ e_plugin.protocol = "stdio" =>
            /\ handler_calls = 0
            /\ (e_pc = "returned" /\ e_kind \in TimeoutKinds \cup ExitKinds)
                  => spawned = 1
      /\ e_plugin.protocol \in {"direct", NoProtocol} =>
            /\ spawned = 0
            /\ process = "none"
            /\ (e_pc = "returned" /\ e_kind # "no_module")
                  => handler_calls = 1
      /\ e_plugin.protocol \notin {"stdio", "direct", NoProtocol} =>
            /\ handler_calls = 0
            /\ spawned = 0
            /\ process = "none"
            /\ e_pc = "returned" =>
                  /\ ~e_result.value.success
                  /\ e_result.value.error
                        = <<"Unknown protocol: ", e_plugin.protocol>>
      /\ (e_pc = "returned" /\ e_kind \in {"returns", "exit_zero"}) =>
            /\ ~e_result.raised
            /\ e_result.value
                  = OutcomeOfPayload(e_tool_call.name,
                                     e_plugin.behaviour.payload)

\* A plugin that declares no protocol was run through its handler and
\* returned a success
C28_Witness ==
    /\ Registered
    /\ e_plugin.protocol = NoProtocol
    /\ e_pc = "returned"
    /\ handler_calls = 1
    /\ spawned = 0
    /\ e_result.value.success

\* ------------------------------------------------------------------- C29

\* C29 as stated: on every return path of _execute_stdio_plugin after the
\* process was spawned (normal exit, non-zero exit, invalid JSON, timeout,
\* or an exception such as arguments that cannot be serialised to JSON) the
\* spawned process has terminated, and at most one process is spawned per
\* call.
C29_SpawnedProcessTerminated ==
    /\ spawned <= 1
    /\ spawned = 0 => process = "none"
    /\ (e_pc = "returned" /\ spawned = 1) => process = "exited"

\* The same for the calls whose input was written to the process
C29_TerminatedWhenInputWritten ==
    /\ spawned <= 1
    /\ spawned = 0 => process = "none"
    /\ (e_pc = "returned" /\ spawned = 1 /\ e_kind # "input_error")
          => process = "exited"

\* A process was killed after its timeout and waited for before the return
C29_KilledAndWaited ==
    /\ e_pc = "returned"
    /\ spawned = 1
    /\ kill_sent
    /\ process = "exited"

\* ------------------------------------------------------------------- C30

\* C30: a service built without a plugin manager makes exactly one
\* generation per turn and never parses or executes a tool request, also
\* when the output holds complete blocks: nothing is pending, executed or
\* appended, and the blocks are delivered as text.
C30_NoPluginManagerNoTools ==
    ~plugin_manager =>
        /\ iteration <= 1
        /\ Len(emitted) <= 1
        /\ tool_calls = <<>>
        /\ execution_results = <<>>
        /\ messages = InitialMessages
        /\ pc \in {"loop", "streaming", "done"}
        /\ pc = "done" =>
              /\ iteration = 1
              /\ Len(emitted) = 1
              /\ yielded = emitted[1]

\* A turn without a plugin manager has ended after one generation whose
\* output held a complete block, delivered as text
C30_Witness ==
    /\ ~plugin_manager
    /\ pc = "done"
    /\ iteration = 1
    /\ HasCompleteBlock(Join(yielded))
    /\ parse(Join(yielded)) # <<>>
    /\ tool_calls = <<>>
    /\ messages = InitialMessages

====
